---------------------------- MODULE Spec2Model ----------------------------
(***************************************************************************)
(* AudioIdentityWrapper (vima_bench/env/wrappers/audio_identity.py): the   *)
(* contact-driven identity layer between the simulator and the agent.      *)
(*                                                                         *)
(* Time is counted in quarters of a second, so the default cooldown of     *)
(* 0.25 s is 1.  Bodies are the simulator's integer body ids.  A python    *)
(* dict is a function whose DOMAIN is its key set; None is the string      *)
(* "None".  An embedding (a float32 vector of emb_dim normal variates) is  *)
(* given by its size and the generator position its first component was   *)
(* drawn at.                                                               *)
(***************************************************************************)
EXTENDS Integers, Sequences, FiniteSets, TLC

(* ------------------------------ bounds -------------------------------- *)

\* body ids 0 .. NumBodies - 1
NumBodies == 3
\* contact points returned by one getContactPoints() call
MaxContacts == 1
\* time.time() readings are 0 .. MaxNow
MaxNow == 2
\* step calls between two resets
MaxSteps == 2
\* reset calls in one run
MaxResets == 2
\* contact points of one getContactPoints() call in SpecWide
WideContacts == 2
\* step calls of SpecLong
LongSteps == 3
\* time.time() readings of SpecLong are 0 .. LongNow
LongNow == 4
\* MAX_STEPS of eval_audio_vima.py (250 there), cut down to the length of an
\* episode of the model
MAX_STEPS == 2
\* task.oracle_max_steps is one of 0 .. MaxOracleSteps
MaxOracleSteps == 3

(* ------------------------- program constants -------------------------- *)

\* cooldown=0.25 (default of __init__), in quarters of a second
DefaultCooldown == 1
\* silent_penalty=-1.0 (default of __init__)
silent_penalty == -1
\* self.emb_dim = 128
emb_dim == 128
\* self.last_play_time.get(hit_id, 0.0)
NeverPlayed == 0
\* cooldown_sec=0.20 (default of AudioWrapper.__init__): the unit of time of SpecOld
cooldown_sec == 1

None == "None"
labels == {"tingting", "thud"}
TERMINATED == "touched_silent_object_with_tool"

Bodies == 0 .. (NumBodies - 1)
Nows == 0 .. MaxNow

VARIABLES
    object_sound_map,           \* self.object_sound_map: body id -> label or None
    ignore_bodies,              \* self.ignore_bodies
    tool_bodies,                \* self.tool_bodies
    cooldown,                   \* self.cooldown
    terminate_on_silent_touch,  \* self.terminate_on_silent_touch
    last_play_time,             \* self.last_play_time: body id -> time of last emission
    audio_events,               \* self.audio_events
    step_count,                 \* self.step_count
    audio_obj_emb,              \* self.audio_obj_emb
    rng_pos,                    \* variates drawn so far from self.rng
    call,                       \* the last call: what the simulator gave, what was returned
    emit_time,                  \* emit_time[i] is the `now` at which audio_events[i] was appended
    handed,                     \* the info['audio_events'] lists returned since the last reset
    resets,                     \* reset calls so far
    before_reset,               \* last_play_time as the latest reset found it
    ep,                         \* eval_audio_vima.run_episode: its locals and its position
    aw                          \* the AudioWrapper instance and its last call

config == <<object_sound_map, ignore_bodies, tool_bodies, cooldown,
            terminate_on_silent_touch>>
vars == <<object_sound_map, ignore_bodies, tool_bodies, cooldown,
          terminate_on_silent_touch, last_play_time, audio_events, step_count,
          audio_obj_emb, rng_pos, call, emit_time, handed, resets, before_reset,
          ep, aw>>
\* the AudioIdentityWrapper instance and what is kept of its calls
wrapper == <<object_sound_map, ignore_bodies, tool_bodies, cooldown,
             terminate_on_silent_touch, last_play_time, audio_events, step_count,
             audio_obj_emb, rng_pos, call, emit_time, handed, resets, before_reset>>

(* ------------------------------ helpers ------------------------------- *)

EmptyDict == [k \in {} |-> 0]

\* d.get(k, default)
Get(d, k, default) == IF k \in DOMAIN d THEN d[k] ELSE default

\* d[k] = v on a dict
Put(d, k, v) == [x \in (DOMAIN d) \cup {k} |-> IF x = k THEN v ELSE d[x]]

\* the keys of a dict over body ids, in insertion order (ascending ids)
RECURSIVE KeysInOrder(_)
KeysInOrder(S) ==
    IF S = {} THEN <<>>
    ELSE LET m == CHOOSE x \in S : \A y \in S : x <= y
         IN <<m>> \o KeysInOrder(S \ {m})

IsPrefix(s, t) == Len(s) <= Len(t) /\ SubSeq(t, 1, Len(s)) = s

(* --------------------------- constructor ------------------------------ *)

\* The scenes the wrapper is built for.  Body 0 is the robot, the only tool body
\* (eval_audio_vima.run_episode); bodies 1 and 2 are the objects, each silent
\* (build_object_sound_map) or labelled labels[idx] as demo_trimodal_gui labels
\* them.  The robot is in the ignore set (run_episode) or not, and the
\* constructor also accepts an ignore set that holds an object.
ROBOT == 0
SoundMaps == {m \in [{1, 2} -> labels \cup {None}] :
                 m[1] # "thud" /\ m[2] # "tingting"}
IgnoreSets == {{}, {ROBOT}, {1}}
ToolSets == {{ROBOT}}

\* the simulator's info: None, or a dict with the task's keys
SimInfos == {[none |-> TRUE, dict |-> EmptyDict],
             [none |-> FALSE, dict |-> ("success" :> FALSE)]}

\* the simulator's rewards
SimRewards == {1}

\* one contact point: cp[1] and cp[2] of pybullet's tuple, two different bodies
ContactPairs == {<<a, b>> : a \in Bodies, b \in Bodies} \ {<<a, a>> : a \in Bodies}

RECURSIVE SeqsUpTo(_, _)
SeqsUpTo(S, n) ==
    IF n = 0 THEN {<<>>}
    ELSE LET shorter == SeqsUpTo(S, n - 1)
         IN shorter \cup {Append(s, x) : s \in shorter, x \in S}

\* what getContactPoints() may return
ContactLists == SeqsUpTo(ContactPairs, MaxContacts)

\* the simulator's observations
SimObservations == {"rgb"}

\* the exception self.env.step or self.env.reset may raise
SimErrors == {"RuntimeError"}

\* what subprocess.Popen(["play", ...]) does: it starts the player, or raises OSError
\* (no `play` program, no process to be had)
PlayOutcomes == {"started", "oserror"}

\* a call record with nothing received and nothing returned.  sim_error is the
\* exception the simulator raised, raised the exception the call ended with;
\* play is the outcome of the playback attempts of the call; info_is_sim tells
\* that the dict returned is the simulator's own, sim_info_after is what the
\* simulator's dict holds once the call is over; nth counts the calls of step
\* since the latest reset, this one included.
NoCall(op) ==
    [op |-> op, cps |-> <<>>, now |-> 0, sim_obs |-> "", sim_reward |-> 0,
     sim_done |-> FALSE, sim_info |-> [none |-> TRUE, dict |-> EmptyDict],
     sim_error |-> "", play |-> "unused", raised |-> "",
     obs |-> "", reward |-> 0, done |-> FALSE, info |-> EmptyDict,
     info_is_sim |-> FALSE, sim_info_after |-> EmptyDict, trace |-> <<>>, nth |-> 0]

(* ------------------------------- reset -------------------------------- *)

\* self.rng.normal(size=(self.emb_dim,)).astype("float32"), drawn at position pos
Normal(pos) == [dtype |-> "float32", size |-> emb_dim, first |-> pos]

\* v.tolist(): a list of v.size floats
Tolist(v) == [len |-> v.size, first |-> v.first]

\* the silent label taken for a sound label
HasSound_Always(label) == TRUE

\* the label makes a sound
HasSound(label) == label # None

\* the loop of reset leaving at the first silent label (break for continue)
RECURSIVE EmbedFrom_Break(_, _, _)
EmbedFrom_Break(keys, pos, emb) ==
    IF keys = <<>> THEN [emb |-> emb, pos |-> pos]
    ELSE LET obj_id == Head(keys)
         IN IF ~HasSound(object_sound_map[obj_id])
            THEN [emb |-> emb, pos |-> pos]
            ELSE EmbedFrom_Break(Tail(keys), pos + emb_dim, Put(emb, obj_id, Normal(pos)))

\* the loop of reset over object_sound_map.items(): emb and generator position after it
RECURSIVE EmbedFrom(_, _, _)
EmbedFrom(keys, pos, emb) ==
    IF keys = <<>> THEN [emb |-> emb, pos |-> pos]
    ELSE LET obj_id == Head(keys)
         IN IF ~HasSound(object_sound_map[obj_id])
            THEN EmbedFrom(Tail(keys), pos, emb)
            ELSE EmbedFrom(Tail(keys), pos + emb_dim, Put(emb, obj_id, Normal(pos)))

\* reset making its generator anew: np.random.default_rng(42) at position 0
Generator_Reseeded(pos) == 0

\* self.rng as reset finds it: made once in __init__ and advanced by every draw,
\* it is at the position the draws so far have left it at
Generator(pos) == pos

\* reset leaving the event log as it is
ClearedEvents_Kept(events) == events

\* self.audio_events.clear()
ClearedEvents(events) == <<>>

\* reset leaving the cooldown state as it is
ClearedPlayTimes_Kept(times) == times

\* self.last_play_time.clear()
ClearedPlayTimes(times) == EmptyDict

(* -------------------------------- step -------------------------------- *)

\* the ignore test looking at body_a only
IgnoredPair_FirstOnly(body_a, body_b) == body_a \in ignore_bodies

\* the tool set looked at first: a pair with a tool body is never ignored
IgnoredPair_ToolFirst(body_a, body_b) ==
    /\ body_a \in ignore_bodies \/ body_b \in ignore_bodies
    /\ body_a \notin tool_bodies /\ body_b \notin tool_bodies

\* body_a in self.ignore_bodies or body_b in self.ignore_bodies
IgnoredPair(body_a, body_b) == body_a \in ignore_bodies \/ body_b \in ignore_bodies

\* the membership test of line 114 left out
Tracked_Always(hit_id) == TRUE

\* hit_id in self.object_sound_map
Tracked(hit_id) == hit_id \in DOMAIN object_sound_map

\* tool_touch = (other_id in self.tool_bodies)
ToolTouch(other_id) == other_id \in tool_bodies

\* object_touch = (other_id not in self.ignore_bodies)
ObjectTouch(other_id) == other_id \notin ignore_bodies

\* one last-emission time kept for all objects: the latest of the entries
LastPlay_Shared(times, hit_id) ==
    IF DOMAIN times = {} THEN NeverPlayed
    ELSE CHOOSE t \in {times[k] : k \in DOMAIN times} :
            \A k \in DOMAIN times : t >= times[k]

\* last = self.last_play_time.get(hit_id, 0.0)
LastPlay(times, hit_id) == Get(times, hit_id, NeverPlayed)

\* the gate with <= for <
OnCooldown_Inclusive(last, now) == now - last <= cooldown

\* the gate comparing with 0 instead of self.cooldown
OnCooldown_NoWindow(last, now) == now - last < 0

\* now - last < self.cooldown
OnCooldown(last, now) == now - last < cooldown

\* the gate writing `now` when it suppresses: the window slides with the contacts
Suppressed_Sliding(st, hit_id, now) == [st EXCEPT !.last = Put(@, hit_id, now)]

\* `continue` of line 137: a suppressed contact writes nothing
Suppressed(st, hit_id, now) == st

\* the event naming the other body as its object
Event_Swapped(cnt, hit_id, sound_label, other_id, tool_touch) ==
    [step |-> cnt, object_id |-> other_id, sound |-> sound_label,
     other_body |-> hit_id, tool_touch |-> tool_touch]

\* the dict appended to self.audio_events
Event(cnt, hit_id, sound_label, other_id, tool_touch) ==
    [step |-> cnt, object_id |-> hit_id, sound |-> sound_label,
     other_body |-> other_id, tool_touch |-> tool_touch]

\* d[k] of a Python dict: the value, or KeyError
Index(d, k) == IF k \in DOMAIN d THEN d[k] ELSE "KeyError"

\* self.sound_bank: the wav path of a label
sound_bank ==
    [l \in {"tingting", "thud", "alarm", "impact"} |->
        CASE l = "tingting" -> "sounds/obj1.wav"
          [] l = "thud"     -> "sounds/obj2.wav"
          [] l = "alarm"    -> "sounds/obj3.wav"
          [] l = "impact"   -> "sounds/hunk_hunk.wav"]

\* _play without its try/except: the OSError of Popen leaves the method
Play_Unguarded(wav_path, outcome) == IF outcome = "oserror" THEN "OSError" ELSE ""

\* _play(wav_path): the exception that leaves the method ("" for none); the
\* try/except Exception around Popen swallows the OSError
Play(wav_path, outcome) == ""

\* the body of `for hit_id, other_id in ...` on st = [events, times, last, viol,
\* raised]; raised is the exception that left the loop, "" while it runs
ProcessHit(st, hit_id, other_id, now, cnt, play) ==
    IF st.raised # "" THEN st
    ELSE IF ~Tracked(hit_id) THEN st
    ELSE LET tool_touch == ToolTouch(other_id)
             object_touch == ObjectTouch(other_id)
             sound_label == Index(object_sound_map, hit_id)
             wav == Get(sound_bank, sound_label, None)
             failed == IF wav # None THEN Play(wav, play) ELSE ""
         IN IF ~(tool_touch \/ object_touch) THEN st
            ELSE IF sound_label = "KeyError" THEN [st EXCEPT !.raised = "KeyError"]
            ELSE IF ~HasSound(sound_label) /\ tool_touch
                 THEN [st EXCEPT !.viol = TRUE]
            ELSE IF ~HasSound(sound_label) THEN st
            ELSE IF OnCooldown(LastPlay(st.last, hit_id), now)
                 THEN Suppressed(st, hit_id, now)
            ELSE IF failed # "" THEN [st EXCEPT !.raised = failed]
            ELSE [st EXCEPT
                    !.events = Append(@, Event(cnt, hit_id, sound_label, other_id,
                                               tool_touch)),
                    !.times = Append(@, now),
                    !.last = Put(@, hit_id, now)]

\* the body of `for cp in cps`
ProcessContact(st, cp, now, cnt, play) ==
    IF IgnoredPair(cp[1], cp[2]) THEN st
    ELSE ProcessHit(ProcessHit(st, cp[1], cp[2], now, cnt, play),
                    cp[2], cp[1], now, cnt, play)

\* the states of the loop over cps: before the first contact, then after each one
RECURSIVE ContactLoop(_, _, _, _, _)
ContactLoop(st, cps, now, cnt, play) ==
    IF cps = <<>> THEN <<st>>
    ELSE <<st>> \o ContactLoop(ProcessContact(st, Head(cps), now, cnt, play),
                               Tail(cps), now, cnt, play)

\* the rule with `not` left out: it fires only once the simulator is done
ShouldTerminate_WhenDone(silent_violation, done) ==
    terminate_on_silent_touch /\ silent_violation /\ done

\* the rule without its `not done` conjunct
ShouldTerminate_AnyDone(silent_violation, done) ==
    terminate_on_silent_touch /\ silent_violation

\* self.terminate_on_silent_touch and silent_violation and not done
ShouldTerminate(silent_violation, done) ==
    terminate_on_silent_touch /\ silent_violation /\ ~done

\* info["audio_events"] = self.audio_events: the log object itself is handed out
ListCopy_Shared(events) == [shared |-> TRUE, items |-> events]

\* list(self.audio_events): a new list object holding the items of the log.
\* shared = TRUE would be the log object itself.
ListCopy(events) == [shared |-> FALSE, items |-> events]

\* what a list object handed out holds when the wrapper's log is `log`
Contents(list, log) == IF list.shared THEN log ELSE list.items

\* the identity map handed out without its silent objects
DictCopy_Sounding(d) == [k \in {x \in DOMAIN d : d[x] # None} |-> d[k]]

\* dict(self.object_sound_map)
DictCopy(d) == d

\* {k: v.tolist() for k, v in self.audio_obj_emb.items()}
EmbLists(emb) == [k \in DOMAIN emb |-> Tolist(emb[k])]

\* the four keys added with the log as it was when step was entered
Augment_Stale(info, events) ==
    ("audio_events" :> ListCopy(audio_events))
    @@ ("audio_identity" :> DictCopy(object_sound_map))
    @@ ("audio_obj_emb" :> EmbLists(audio_obj_emb)) @@ ("audio_emb_dim" :> emb_dim) @@ info

\* the four keys step adds to info
Augment(info, events) ==
    ("audio_events" :> ListCopy(events)) @@ ("audio_identity" :> DictCopy(object_sound_map))
    @@ ("audio_obj_emb" :> EmbLists(audio_obj_emb)) @@ ("audio_emb_dim" :> emb_dim) @@ info

\* info["terminated_reason"] = "touched_silent_object_with_tool" on dict(info)
WithReason(info) == ("terminated_reason" :> TERMINATED) @@ info

\* info = info: the simulator's dict itself is written to
InfoCopy_Alias(c) == c

\* dict(info): a new dict object with the items of c.  A dict object is
\* [shared, items], shared = TRUE for the object the simulator returned.
InfoCopy(c) == [shared |-> FALSE, items |-> c.items]

\* an exception of the simulator caught and dropped
Propagated_Swallowed(error) == ""

\* self.env.step and self.env.reset are called outside any try: the exception
\* leaves the wrapper's method as it is
Propagated(error) == error

(* ------------------------------ actions ------------------------------- *)

\* the state __init__ leaves, for identity maps of `maps` and cooldowns of `cooldowns`
InitOf(maps, ignores, tools, cooldowns, terminates) ==
    /\ object_sound_map \in maps
    /\ ignore_bodies \in ignores
    /\ tool_bodies \in tools
    /\ cooldown \in cooldowns
    /\ terminate_on_silent_touch \in terminates
    /\ last_play_time = EmptyDict
    /\ audio_events = <<>>
    /\ step_count = 0
    /\ audio_obj_emb = EmptyDict
    /\ rng_pos = 0
    /\ call = NoCall("init")
    /\ emit_time = <<>>
    /\ handed = <<>>
    /\ resets = 0
    /\ before_reset = EmptyDict

\* no run_episode under way
NoEpisode == [pc |-> "idle"]

\* no AudioWrapper made
NoAudioWrapper == [op |-> "none"]

\* an AudioIdentityWrapper on its own, for identity maps of `maps` and cooldowns of
\* `cooldowns`
InitWith(maps, cooldowns) ==
    /\ InitOf(maps, IgnoreSets, ToolSets, cooldowns, BOOLEAN)
    /\ ep = NoEpisode
    /\ aw = NoAudioWrapper

\* the wrapper with the default cooldown
Init == InitWith(SoundMaps, {DefaultCooldown})

\* AudioIdentityWrapper.reset(), self.env.reset() returning (error = "") or raising
ResetWith(error) ==
    /\ LET drawn == EmbedFrom(KeysInOrder(DOMAIN object_sound_map), Generator(rng_pos),
                              EmptyDict)
       IN /\ audio_events' = ClearedEvents(audio_events)
          /\ last_play_time' = ClearedPlayTimes(last_play_time)
          /\ step_count' = 0
          /\ audio_obj_emb' = drawn.emb
          /\ rng_pos' = drawn.pos
    /\ call' = [NoCall("reset") EXCEPT !.sim_error = error, !.raised = Propagated(error)]
    /\ emit_time' = <<>>
    /\ handed' = <<>>
    /\ resets' = resets + 1
    /\ before_reset' = last_play_time
    /\ UNCHANGED config

Reset ==
    /\ resets < MaxResets
    /\ ResetWith("")
    /\ UNCHANGED <<ep, aw>>

ResetRaises ==
    /\ resets < MaxResets
    /\ \E error \in SimErrors : ResetWith(error)
    /\ UNCHANGED <<ep, aw>>

\* what step(action) leaves and returns, the simulator returning (obs, reward, done,
\* info), time.time() returning now, getContactPoints() returning cps and the
\* playback attempts ending as play
StepResult(cps, now, obs, reward, done, info, play) ==
    LET cnt == step_count + 1
        loop == ContactLoop([events |-> audio_events, times |-> emit_time,
                             last |-> last_play_time, viol |-> FALSE, raised |-> ""],
                            cps, now, cnt, play)
        end == loop[Len(loop)]
        terminate == end.raised = "" /\ ShouldTerminate(end.viol, done)
        \* dict(info) of line 158 raises TypeError on None
        raised == IF end.raised # "" THEN end.raised
                  ELSE IF terminate /\ info.none THEN "TypeError" ELSE ""
        received == [NoCall("step") EXCEPT
                        !.cps = cps, !.now = now, !.sim_obs = obs, !.sim_reward = reward,
                        !.sim_done = done, !.sim_info = info, !.play = play,
                        !.nth = call.nth + 1,
                        !.sim_info_after = info.dict,
                        !.trace = [i \in 1 .. Len(loop) |->
                                     [n |-> Len(loop[i].events), last |-> loop[i].last,
                                      viol |-> loop[i].viol]]]
        given == [shared |-> TRUE, items |-> info.dict]
        reasoned == IF terminate
                    THEN [InfoCopy(given) EXCEPT !.items = WithReason(@)]
                    ELSE given
        copied == IF info.none THEN [shared |-> FALSE, items |-> EmptyDict]
                  ELSE InfoCopy(reasoned)
        out == [copied EXCEPT !.items = Augment(@, end.events)]
    IN [step_count |-> cnt,
        audio_events |-> end.events,
        emit_time |-> end.times,
        last_play_time |-> end.last,
        call |-> IF raised # ""
                 THEN [received EXCEPT !.raised = raised]
                 ELSE [received EXCEPT
                          !.obs = obs,
                          !.reward = IF terminate THEN silent_penalty ELSE reward,
                          !.done = IF terminate THEN TRUE ELSE done,
                          !.info = out.items,
                          !.info_is_sim = out.shared,
                          !.sim_info_after = IF out.shared THEN out.items ELSE info.dict],
        handed |-> IF raised # "" THEN handed
                   ELSE Append(handed, out.items["audio_events"])]

\* AudioIdentityWrapper.step(action) with the simulator's step returning
StepWith(cps, now, obs, reward, done, info, play) ==
    \E r \in {StepResult(cps, now, obs, reward, done, info, play)} :
       /\ step_count' = r.step_count
       /\ audio_events' = r.audio_events
       /\ emit_time' = r.emit_time
       /\ last_play_time' = r.last_play_time
       /\ call' = r.call
       /\ handed' = r.handed
       /\ UNCHANGED <<config, audio_obj_emb, rng_pos, resets, before_reset>>

\* the step calls _play: some contact of cps gets past the cooldown gate
PlayAttempted(cps, now) ==
    StepResult(cps, now, "rgb", 0, FALSE, [none |-> FALSE, dict |-> EmptyDict],
               "started").audio_events # audio_events

\* the outcomes of the playback attempts of a step
PlaysOf(cps, now) == IF PlayAttempted(cps, now) THEN PlayOutcomes ELSE {"unused"}

\* the limit-th call of step at most, its contact points one of `lists`, the clock
\* reading one of `nows`, the simulator returning a done of `dones` and an info of
\* `infos`
StepOver(limit, lists, nows, dones, infos) ==
    /\ call.nth < limit
    /\ \E cps \in lists, now \in nows, obs \in SimObservations,
          reward \in SimRewards, done \in dones, info \in infos :
          \E play \in PlaysOf(cps, now) :
             StepWith(cps, now, obs, reward, done, info, play)
    /\ UNCHANGED <<ep, aw>>

\* AudioIdentityWrapper.step(action) with self.env.step(action) raising: line 90 is
\* the first statement of step, nothing of the wrapper has run
StepRaisesWith(error) ==
    /\ call' = [NoCall("step") EXCEPT !.sim_error = error, !.raised = Propagated(error),
                                      !.nth = call.nth + 1]
    /\ UNCHANGED <<config, last_play_time, audio_events, step_count, audio_obj_emb,
                   rng_pos, emit_time, handed, resets, before_reset>>

StepRaises ==
    /\ call.nth < MaxSteps
    /\ \E error \in SimErrors : StepRaisesWith(error)
    /\ UNCHANGED <<ep, aw>>

Step == StepOver(MaxSteps, ContactLists, Nows, BOOLEAN, SimInfos)

Next == Reset \/ ResetRaises \/ Step \/ StepRaises

Spec == Init /\ [][Next]_vars

(* a second specification: wrappers whose cooldown may be 0 and whose scene has a
   body that is in no registry, stepped up to MaxSteps times with up to
   WideContacts contacts each *)

\* identity maps of the one object 1, body 2 being no object of the task, and
\* the map of two sounding objects
WideMaps == {1 :> "tingting", 1 :> None, (1 :> "tingting") @@ (2 :> "thud")}

\* the cooldown argument of the constructor: none, or the default
WideCooldowns == {0, DefaultCooldown}

WideContactLists == SeqsUpTo(ContactPairs, WideContacts)

InitWide == InitWith(WideMaps, WideCooldowns)

\* the simulator goes on and returns a dict: what it returns has no part in the
\* contact loop
StepWide ==
    StepOver(MaxSteps, WideContactLists, Nows, {FALSE}, {i \in SimInfos : ~i.none})

\* the steps of the first episode: reset leaves the log and the cooldown state as
\* the constructor does
NextWide == StepWide

SpecWide == InitWide /\ [][NextWide]_vars

(* a third specification: one sounding and one silent object under a cooldown of
   half a second, stepped up to LongSteps times over a longer stretch of time *)

LongMaps == {(1 :> "tingting") @@ (2 :> None)}

\* cooldown = 0.5, in quarter seconds
LongCooldown == 2

LongNows == 0 .. LongNow

InitLong == InitWith(LongMaps, {LongCooldown})

StepLong ==
    StepOver(LongSteps, ContactLists, LongNows, {FALSE}, {i \in SimInfos : ~i.none})

NextLong == StepLong

SpecLong == InitLong /\ [][NextLong]_vars

(* ---------------- eval_audio_vima.run_episode: SpecEval ----------------- *)

\* SOUND_LABELS
SOUND_LABELS == <<"tingting", "thud", "alarm">>

\* SILENT_FRACTION = 0.33, in hundredths
SILENT_FRACTION == 33

\* int(round(n * SILENT_FRACTION)), for the small n of the model
SilentCount(n) == (n * SILENT_FRACTION + 50) \div 100

\* build_object_sound_map: the sorted candidates, the first silent_n of them
\* silent, the others given the labels of SOUND_LABELS in turn
BuildObjectSoundMap(candidates) ==
    LET keys == KeysInOrder(candidates)
        silent_n == SilentCount(Len(keys))
    IN [bid \in candidates |->
          LET i == CHOOSE j \in DOMAIN keys : keys[j] = bid
          IN IF i <= silent_n THEN None
             ELSE SOUND_LABELS[((i - silent_n - 1) % Len(SOUND_LABELS)) + 1]]

\* the bodies of positive mass outside the ignore set and the tool set: bodies 1
\* and 2, or body 1 alone, body 2 being a static body of no listed name
EvalCandidates == {{1}, {1, 2}}

EvalMaps == {BuildObjectSoundMap(c) : c \in EvalCandidates}

\* the info of the simulator: None, or a dict that may report success or failure
EvalInfos ==
    {[none |-> TRUE, dict |-> EmptyDict],
     [none |-> FALSE, dict |-> ("success" :> FALSE)],
     [none |-> FALSE, dict |-> ("success" :> TRUE)],
     [none |-> FALSE, dict |-> ("success" :> FALSE) @@ ("failure" :> TRUE)]}

\* the locals of run_episode before env.reset(); t = 0 stands for t not bound.
\* stopped, late and closes are kept for the properties: a step returned done,
\* success or failure or the oracle returned None; the steps taken after that; the
\* calls of env.close.
NewEpisode(n) ==
    [pc |-> "made", oracle_max_steps |-> n, t |-> 0, steps |-> 0,
     success |-> FALSE, failure |-> FALSE, terminated_reason |-> "",
     audio_event_count |-> 0, closes |-> 0, stopped |-> FALSE, late |-> 0,
     error |-> "", row |-> [steps |-> 0, compliant |-> 0, terminated_reason |-> ""]]

\* min(MAX_STEPS, task.oracle_max_steps)
Limit(e) == IF MAX_STEPS < e.oracle_max_steps THEN MAX_STEPS ELSE e.oracle_max_steps

\* the wrapper of lines 118-126: the robot in the ignore set and in the tool set
InitEval ==
    /\ InitOf(EvalMaps, {{ROBOT}}, {{ROBOT}}, {DefaultCooldown}, {TRUE})
    /\ ep \in {NewEpisode(n) : n \in 0 .. MaxOracleSteps}
    /\ aw = NoAudioWrapper

\* obs = env.reset() of line 128
EvalReset ==
    /\ ep.pc = "made"
    /\ ResetWith("")
    /\ ep' = [ep EXCEPT !.pc = "loop"]
    /\ UNCHANGED aw

\* env.reset() of line 128 raising: the exception leaves run_episode
EvalResetRaises ==
    /\ ep.pc = "made"
    /\ \E error \in SimErrors :
          /\ ResetWith(error)
          /\ ep' = [ep EXCEPT !.pc = "reset_raised", !.error = call'.raised]
    /\ UNCHANGED aw

\* the loop goes on after a step that reported success or failure
Breaks_DoneOnly(done, success, failure) == done

\* if done or success or failure: break
Breaks(done, success, failure) == done \/ success \/ failure

\* the locals after obs, reward, done, info = env.step(oracle_action) ended as c
AfterStep(e, c) ==
    IF c.raised # ""
    THEN [e EXCEPT !.pc = "raised", !.error = c.raised, !.t = @ + 1, !.steps = @ + 1,
                   !.late = IF e.stopped THEN @ + 1 ELSE @]
    ELSE LET success == Get(c.info, "success", FALSE)
             failure == Get(c.info, "failure", FALSE)
         IN [e EXCEPT
               !.t = @ + 1,
               !.steps = @ + 1,
               !.late = IF e.stopped THEN @ + 1 ELSE @,
               !.success = success,
               !.failure = failure,
               !.terminated_reason = Get(c.info, "terminated_reason", ""),
               !.audio_event_count = Len(c.info["audio_events"].items),
               !.stopped = @ \/ c.done \/ success \/ failure,
               !.pc = IF Breaks(c.done, success, failure) THEN "close" ELSE "loop"]

\* one turn of the loop in which the oracle returns None (lines 136-141)
EvalOracleNone ==
    /\ ep.pc = "loop"
    /\ ep.t < Limit(ep)
    /\ ep' = [ep EXCEPT !.t = @ + 1, !.failure = TRUE,
                        !.terminated_reason = "oracle_returned_none",
                        !.stopped = TRUE, !.pc = "close"]
    /\ UNCHANGED <<wrapper, aw>>

\* one turn of the loop in which the oracle acts and env.step is called
EvalStep ==
    /\ ep.pc = "loop"
    /\ ep.t < Limit(ep)
    /\ \E cps \in ContactLists, now \in Nows, obs \in SimObservations,
          reward \in SimRewards, done \in BOOLEAN, info \in EvalInfos :
          \E play \in PlaysOf(cps, now) :
             /\ StepWith(cps, now, obs, reward, done, info, play)
             /\ ep' = AfterStep(ep, call')
    /\ UNCHANGED aw

\* one turn of the loop in which the simulator's step raises
EvalStepRaises ==
    /\ ep.pc = "loop"
    /\ ep.t < Limit(ep)
    /\ \E error \in SimErrors :
          /\ StepRaisesWith(error)
          /\ ep' = AfterStep(ep, call')
    /\ UNCHANGED aw

\* range(1, min(MAX_STEPS, task.oracle_max_steps) + 1) is used up
EvalExhausted ==
    /\ ep.pc = "loop"
    /\ ep.t >= Limit(ep)
    /\ ep' = [ep EXCEPT !.pc = "close"]
    /\ UNCHANGED <<wrapper, aw>>

\* env.close() and the dict returned (lines 161-173); "steps": t raises
\* UnboundLocalError when the loop had no turn
EvalClose ==
    /\ ep.pc = "close"
    /\ ep' = IF ep.t = 0
             THEN [ep EXCEPT !.closes = @ + 1, !.pc = "raised",
                             !.error = "UnboundLocalError"]
             ELSE [ep EXCEPT
                     !.closes = @ + 1, !.pc = "returned",
                     !.row = [steps |-> ep.t,
                              compliant |-> IF ep.terminated_reason # TERMINATED
                                            THEN 1 ELSE 0,
                              terminated_reason |-> ep.terminated_reason]]
    /\ UNCHANGED <<wrapper, aw>>

NextEval ==
    \/ EvalReset \/ EvalResetRaises \/ EvalOracleNone \/ EvalStep \/ EvalStepRaises
    \/ EvalExhausted \/ EvalClose

SpecEval == InitEval /\ [][NextEval]_vars

(* ------------------- AudioWrapper (audio_wrapper.py): SpecOld --------- *)

\* wav_paths (default of AudioWrapper.__init__)
wav_paths == <<"sounds/obj1.wav", "sounds/obj2.wav", "sounds/obj3.wav">>

\* the scenes reset finds: the bodies of mass 0 in the order of their ids, and
\* those of them whose name has "plane" or "ground" in it
StaticScenes ==
    {[static |-> <<0, 1, 2>>, plane |-> {0}],
     [static |-> <<1, 2>>, plane |-> {}],
     [static |-> <<2>>, plane |-> {}]}

\* the elements of seq that are not in S, in order
RECURSIVE Without(_, _)
Without(seq, S) ==
    IF seq = <<>> THEN <<>>
    ELSE IF Head(seq) \in S THEN Without(Tail(seq), S)
         ELSE <<Head(seq)>> \o Without(Tail(seq), S)

\* candidates[:3]
FirstThree(seq) == SubSeq(seq, 1, IF Len(seq) < 3 THEN Len(seq) ELSE 3)

\* _choose_three_stationary_bodies: the ids chosen
StaticIds(scene) ==
    LET filtered == Without(scene.static, scene.plane)
    IN FirstThree(IF Len(filtered) >= 3 THEN filtered ELSE scene.static)

\* the results of the simulator's step: a 4-tuple of the old gym API or a 5-tuple
\* of the new one
StepResults ==
    {<<obs, reward, done, info>> :
        obs \in SimObservations, reward \in SimRewards, done \in BOOLEAN,
        info \in {"info"}}
    \cup
    {<<obs, reward, terminated, truncated, info>> :
        obs \in SimObservations, reward \in SimRewards, terminated \in BOOLEAN,
        truncated \in BOOLEAN, info \in {"info"}}

\* the AudioWrapper after __init__; played lists the wavs handed to _play_wav,
\* caught is the exception the try of step swallowed, contacts are the contact
\* points the simulation has in the step, before is _last_play as the call found it
NewAudioWrapper ==
    [op |-> "init", static_ids |-> <<>>, sound_by_id |-> EmptyDict,
     last_play |-> EmptyDict, played |-> <<>>, caught |-> "", contacts |-> <<>>,
     now |-> 0, out |-> <<>>, ret |-> <<>>, before |-> EmptyDict, resets |-> 0,
     steps |-> 0]

\* the name cps as step evaluates it: step assigns no cps, the module has no such
\* global and builtins has none, so the evaluation raises NameError
Name_cps(contacts) == "NameError"

\* lines 102-117 for one contact point, on a = [last_play, played]
OldContact(a, sound, cp, now) ==
    LET bodyA == cp[1]
        bodyB == cp[2]
        hit_id == IF bodyA \in DOMAIN sound THEN bodyA ELSE bodyB
    IN IF hit_id \notin DOMAIN sound THEN a
       ELSE IF now - a.last_play[hit_id] >= cooldown_sec
            THEN [a EXCEPT !.last_play = Put(@, hit_id, now),
                           !.played = Append(@, sound[hit_id])]
            ELSE a

\* for cp in cps
RECURSIVE OldLoop(_, _, _, _)
OldLoop(a, sound, cps, now) ==
    IF cps = <<>> THEN a
    ELSE OldLoop(OldContact(a, sound, Head(cps), now), sound, Tail(cps), now)

\* the try block of step (lines 99-119): an exception raised in it is dropped,
\* with what the block did before it
AudioLogic(a, contacts, now) ==
    LET cps == Name_cps(contacts)
    IN IF cps = "NameError"
       THEN [a EXCEPT !.caught = "NameError"]
       ELSE [OldLoop(a, a.sound_by_id, cps, now) EXCEPT !.caught = ""]

\* the tuple step returns (lines 121-123) for the simulator's tuple out
Returns(out) ==
    IF Len(out) = 4 THEN <<out[1], out[2], out[3], out[4]>>
    ELSE <<out[1], out[2], out[3], out[4], out[5]>>

\* one AudioWrapper, no AudioIdentityWrapper being stepped
InitOld ==
    /\ InitOf({(1 :> "tingting") @@ (2 :> None)}, {{}}, {{ROBOT}}, {DefaultCooldown},
              {FALSE})
    /\ ep = NoEpisode
    /\ aw = NewAudioWrapper

\* AudioWrapper.reset()
OldReset ==
    /\ aw.resets < MaxResets
    /\ \E scene \in StaticScenes :
          LET ids == StaticIds(scene)
              chosen == {ids[i] : i \in DOMAIN ids}
          IN aw' = [aw EXCEPT
                      !.op = "reset",
                      !.static_ids = ids,
                      !.sound_by_id =
                          [bid \in chosen |->
                              LET i == CHOOSE j \in DOMAIN ids : ids[j] = bid
                              IN wav_paths[((i - 1) % Len(wav_paths)) + 1]],
                      !.last_play = [bid \in DOMAIN @ \cup chosen |->
                                       IF bid \in chosen THEN 0 ELSE @[bid]],
                      !.before = aw.last_play,
                      !.caught = "", !.contacts = <<>>, !.now = 0, !.out = <<>>,
                      !.ret = <<>>, !.played = <<>>,
                      !.resets = @ + 1, !.steps = 0]
    /\ UNCHANGED <<wrapper, ep>>

\* AudioWrapper.step(action)
OldStep ==
    /\ aw.op # "none"
    /\ aw.steps < MaxSteps
    /\ \E out \in StepResults, contacts \in ContactLists, now \in Nows :
          aw' = [AudioLogic([aw EXCEPT !.played = <<>>], contacts, now) EXCEPT
                    !.op = "step", !.contacts = contacts, !.now = now, !.out = out,
                    !.ret = Returns(out), !.before = aw.last_play,
                    !.steps = @ + 1]
    /\ UNCHANGED <<wrapper, ep>>

NextOld == OldReset \/ OldStep

SpecOld == InitOld /\ [][NextOld]_vars

(* ------------------- vocabulary of the properties --------------------- *)

\* the last call was a step in which the simulator's step returned
Stepped == call.op = "step" /\ call.sim_error = ""
Returned == Stepped /\ call.raised = ""

\* cp is a contact between a tool body and a tracked object whose label is silent
ToolSilent(cp) ==
    \E hit \in {cp[1], cp[2]}, other \in {cp[1], cp[2]} :
        /\ hit # other
        /\ hit \in DOMAIN object_sound_map
        /\ object_sound_map[hit] = None
        /\ other \in tool_bodies

\* neither body of cp is in the ignore set
Unignored(cp) == cp[1] \notin ignore_bodies /\ cp[2] \notin ignore_bodies

Contacts == {call.cps[i] : i \in DOMAIN call.cps}

\* the wrapper forced the termination of the last step
Forced(c) ==
    /\ c.op = "step" /\ c.raised = ""
    /\ c.done /\ c.reward = silent_penalty
    /\ "terminated_reason" \in DOMAIN c.info
    /\ c.info["terminated_reason"] = TERMINATED

\* the last step returned the simulator's reward and done, and no reason
Untouched(c) ==
    /\ c.op = "step" /\ c.raised = ""
    /\ c.reward = c.sim_reward /\ c.done = c.sim_done
    /\ "terminated_reason" \notin DOMAIN c.info

\* the events the i-th contact of the last step appended
AppendedBy(i) == SubSeq(audio_events, call.trace[i].n + 1, call.trace[i + 1].n)

(* -------------------------------- C1 ---------------------------------- *)

ConsecutiveOfOneObject(i, j) ==
    /\ i < j
    /\ audio_events[i].object_id = audio_events[j].object_id
    /\ \A k \in (i + 1) .. (j - 1) :
          audio_events[k].object_id # audio_events[i].object_id

\* C2: two consecutive events of the same object were emitted at times at least
\* cooldown apart, and a contact of an object less than cooldown after that
\* object's last emission appends no event of that object.
C2_Cooldown ==
    /\ \A i \in DOMAIN audio_events, j \in DOMAIN audio_events :
          ConsecutiveOfOneObject(i, j) => emit_time[j] - emit_time[i] >= cooldown
    /\ Stepped =>
          \A i \in DOMAIN call.cps : \A hit \in {call.cps[i][1], call.cps[i][2]} :
              (/\ hit \in DOMAIN call.trace[i].last
               /\ call.now - call.trace[i].last[hit] < cooldown)
              => \A k \in DOMAIN AppendedBy(i) : AppendedBy(i)[k].object_id # hit

\* the log holds two events of one object, the second from a later step
C2_Witness ==
    \E i \in DOMAIN audio_events, j \in DOMAIN audio_events :
        /\ ConsecutiveOfOneObject(i, j)
        /\ audio_events[i].step < audio_events[j].step

(* -------------------------------- C3 ---------------------------------- *)

\* hit is the subject of a qualifying contact cp: cp is not ignored and hit is a
\* tracked object with a sound label
SoundingSubject(cp, hit) ==
    /\ hit \in {cp[1], cp[2]}
    /\ Unignored(cp)
    /\ hit \in DOMAIN object_sound_map
    /\ object_sound_map[hit] # None

\* C3 as stated: after a reset, a qualifying contact of a non-silent object that
\* has no emission yet in the episode emits an event, whatever `now` is.
C3_Claim ==
    (Stepped /\ resets >= 1) =>
        \A i \in DOMAIN call.cps : \A hit \in {call.cps[i][1], call.cps[i][2]} :
            (SoundingSubject(call.cps[i], hit) /\ hit \notin DOMAIN call.trace[i].last)
            => \E k \in DOMAIN AppendedBy(i) : AppendedBy(i)[k].object_id = hit

(* -------------------------------- C4 ---------------------------------- *)

\* C4 as stated: once the wrapper has forced termination in an episode, a later
\* step of that episode with a tool-to-silent contact returns the simulator's
\* reward and done unchanged and no reason, whatever done the simulator returns.
C4_Claim ==
    [][(/\ Forced(call)
        /\ call'.op = "step" /\ step_count' = step_count + 1
        /\ ~call'.sim_info.none
        /\ \E i \in DOMAIN call'.cps : ToolSilent(call'.cps[i]))
       => (/\ call'.raised = ""
           /\ call'.reward = call'.sim_reward /\ call'.done = call'.sim_done
           /\ "terminated_reason" \notin DOMAIN call'.info)]_vars

(* -------------------------------- C5 ---------------------------------- *)

\* C5: a contact pair with a body of the ignore set appends no event, changes no
\* cooldown entry and does not raise the violation flag.
C5_IgnoredPairs ==
    Stepped =>
        \A i \in DOMAIN call.cps :
            ~Unignored(call.cps[i]) => call.trace[i + 1] = call.trace[i]

\* an ignored body that is also a tool body touched a tracked object that is off
\* cooldown or silent, and the step recorded nothing
C5_Witness ==
    /\ Stepped /\ call.now >= cooldown /\ terminate_on_silent_touch /\ ~call.sim_done
    /\ \E i \in DOMAIN call.cps :
          /\ ~Unignored(call.cps[i])
          /\ \E hit \in {call.cps[i][1], call.cps[i][2]},
                other \in {call.cps[i][1], call.cps[i][2]} :
                hit \in DOMAIN object_sound_map /\ other \in tool_bodies /\ hit # other
    /\ audio_events = <<>> /\ last_play_time = EmptyDict /\ Untouched(call)

(* -------------------------------- C6 ---------------------------------- *)

\* C6: reset leaves an empty log, no cooldown entry and step counter 0; the list
\* in the info of the first step after a reset holds only events of that step;
\* and in that step an object that emitted less than cooldown before the reset
\* emits whenever an object that never emitted would (now - 0.0 >= cooldown).
C6_ResetClears ==
    /\ call.op = "reset" =>
          audio_events = <<>> /\ last_play_time = EmptyDict /\ step_count = 0
    /\ (Returned /\ resets >= 1 /\ step_count = 1) =>
          /\ Contents(call.info["audio_events"], audio_events) = audio_events
          /\ \A k \in DOMAIN audio_events : audio_events[k].step = 1
    /\ (Stepped /\ resets >= 1 /\ step_count = 1) =>
          \A i \in DOMAIN call.cps : \A hit \in {call.cps[i][1], call.cps[i][2]} :
              (/\ SoundingSubject(call.cps[i], hit)
               /\ hit \in DOMAIN before_reset
               /\ hit \notin DOMAIN call.trace[i].last
               /\ call.now - NeverPlayed >= cooldown)
              => \E k \in DOMAIN AppendedBy(i) : AppendedBy(i)[k].object_id = hit

\* the first step after a reset emitted for an object whose last emission of the
\* previous episode was less than cooldown before
C6_Witness ==
    /\ Returned /\ resets >= 1 /\ step_count = 1
    /\ \E k \in DOMAIN audio_events :
          LET hit == audio_events[k].object_id
          IN /\ hit \in DOMAIN before_reset
             /\ call.now - before_reset[hit] < cooldown

(* -------------------------------- C7 ---------------------------------- *)

\* the keys of the identity map whose label is not silent
SoundKeys == {k \in DOMAIN object_sound_map : object_sound_map[k] # None}

\* C7: after a reset the embedding map has exactly the non-silent keys, each with
\* an embedding of 128 components, and so has the info of every step.
C7_Embeddings ==
    resets >= 1 =>
        /\ DOMAIN audio_obj_emb = SoundKeys
        /\ \A k \in DOMAIN audio_obj_emb : audio_obj_emb[k].size = 128
        /\ Returned =>
              /\ DOMAIN call.info["audio_obj_emb"] = SoundKeys
              /\ \A k \in SoundKeys : call.info["audio_obj_emb"][k].len = 128
              /\ call.info["audio_emb_dim"] = 128

\* a step after a reset, the identity map holding a silent and a non-silent object
C7_Witness ==
    /\ Returned /\ resets >= 1
    /\ SoundKeys # {} /\ SoundKeys # DOMAIN object_sound_map
    /\ DOMAIN call.info["audio_obj_emb"] = SoundKeys

(* -------------------------------- C8 ---------------------------------- *)

\* the lists handed out since the last reset, each a prefix of the next ones
HandedGrow ==
    \A i \in DOMAIN handed, j \in DOMAIN handed :
        i < j => IsPrefix(Contents(handed[i], audio_events),
                          Contents(handed[j], audio_events))

\* C8: within an episode the list of step i is a prefix of the list of step j > i,
\* and no step or reset changes what a list already handed out holds.
C8_HandedOut ==
    [][/\ \A i \in DOMAIN handed :
             Contents(handed[i], audio_events') = Contents(handed[i], audio_events)
       /\ HandedGrow']_vars

\* two steps of one episode returned lists, the later one strictly longer
C8_Witness ==
    /\ Len(handed) = 2
    /\ Len(Contents(handed[1], audio_events)) >= 1
    /\ Len(Contents(handed[1], audio_events)) < Len(Contents(handed[2], audio_events))

(* -------------------------------- C9 ---------------------------------- *)

\* cp joins two tracked objects, neither a tool body nor an ignored body
ObjectObject(cp) ==
    /\ cp[1] \in DOMAIN object_sound_map /\ cp[2] \in DOMAIN object_sound_map
    /\ cp[1] \notin tool_bodies /\ cp[2] \notin tool_bodies
    /\ Unignored(cp)

\* hit emitted within cooldown before `now`, going by the state `last`
WithinCooldown(last, hit, now) == hit \in DOMAIN last /\ now - last[hit] < cooldown

\* C9 as stated: a contact between two tracked objects outside the tool set and
\* the ignore set raises no violation; a non-silent one of them that is not on
\* cooldown gets an event with tool_touch = FALSE; a silent one gets no event.
C9_Claim ==
    Stepped =>
        \A i \in DOMAIN call.cps :
            ObjectObject(call.cps[i]) =>
                /\ call.trace[i + 1].viol = call.trace[i].viol
                /\ \A hit \in {call.cps[i][1], call.cps[i][2]} :
                      IF object_sound_map[hit] = None
                      THEN \A k \in DOMAIN AppendedBy(i) : AppendedBy(i)[k].object_id # hit
                      ELSE ~WithinCooldown(call.trace[i].last, hit, call.now) =>
                              \E k \in DOMAIN AppendedBy(i) :
                                  /\ AppendedBy(i)[k].object_id = hit
                                  /\ AppendedBy(i)[k].tool_touch = FALSE

(* -------------------------------- C10 --------------------------------- *)

\* C10: step returns the simulator's reward and done and adds no reason when
\* terminate_on_silent_touch is off, when no contact joins a tool body and a
\* silent object, or when the simulator returned done = true.
C10_Untouched ==
    (/\ Stepped
     /\ \/ ~terminate_on_silent_touch
        \/ ~\E cp \in Contacts : ToolSilent(cp)
        \/ call.sim_done)
    => Untouched(call)

\* a tool body touched a silent object, termination enabled, and the simulator
\* had already returned done = true
C10_Witness ==
    /\ Stepped /\ terminate_on_silent_touch /\ call.sim_done
    /\ \E cp \in Contacts : ToolSilent(cp) /\ Unignored(cp)
    /\ Untouched(call)

(* ------------------------------- C11 ---------------------------------- *)

\* the keys step adds to every info it returns
AudioKeys == {"audio_events", "audio_identity", "audio_obj_emb", "audio_emb_dim"}

\* C11: every step that returns, be it a step without contacts, a step the
\* simulator ended or a step the silent-object rule ended, returns an info with
\* the four audio keys, whose audio_events holds the whole event log of the
\* episode, the events of this step included, and whose audio_identity equals
\* the identity map.
C11_AudioKeys ==
    Returned =>
        /\ AudioKeys \subseteq DOMAIN call.info
        /\ Contents(call.info["audio_events"], audio_events) = audio_events
        /\ call.info["audio_identity"] = object_sound_map
        /\ call.info["audio_emb_dim"] = emb_dim

\* a step the simulator ended returns after adding an event to a log that held one
C11_Witness ==
    /\ Returned
    /\ call.sim_done
    /\ call.trace[1].n >= 1
    /\ Len(audio_events) > call.trace[1].n
    /\ AudioKeys \subseteq DOMAIN call.info

(* ------------------------------- C12 ---------------------------------- *)

\* C12: step leaves the simulator's observation and info alone: the observation
\* returned is the simulator's, the info returned is a dict object of its own, the
\* simulator's dict holds after the call what it held before, and every key of the
\* simulator's info other than the four audio keys and terminated_reason is in the
\* info returned with the same value.
C12_SimUntouched ==
    /\ Stepped => call.sim_info_after = call.sim_info.dict
    /\ Returned =>
          /\ call.obs = call.sim_obs
          /\ ~call.info_is_sim
          /\ \A k \in DOMAIN call.sim_info.dict \ (AudioKeys \cup {"terminated_reason"}) :
                k \in DOMAIN call.info /\ call.info[k] = call.sim_info.dict[k]

\* a forced termination returns, the simulator's info holding a key of its own
C12_Witness ==
    /\ Returned
    /\ Forced(call)
    /\ "success" \in DOMAIN call.sim_info.dict
    /\ "terminated_reason" \in DOMAIN call.info
    /\ "terminated_reason" \notin DOMAIN call.sim_info_after

(* ------------------------------- C13 ---------------------------------- *)

\* C13: the constructor rejects an identity map with a key that is also in the
\* ignore set or in the tool set, so in every reachable state no key of the
\* identity map is an ignored body or a tool body.
C13_DisjointRegistry ==
    DOMAIN object_sound_map \cap (ignore_bodies \cup tool_bodies) = {}

(* ------------------------------- C14 ---------------------------------- *)

\* the step just taken, had its playback attempts ended as play
Replayed(play) ==
    StepResult(call'.cps, call'.now, call'.sim_obs, call'.sim_reward, call'.sim_done,
               call'.sim_info, play)

\* what a caller can tell of a step: the log and the cooldown state it leaves,
\* what it returns and what it raises
Observed(r) ==
    <<r.audio_events, r.last_play_time, r.step_count, r.call.raised, r.call.reward,
      r.call.done, r.call.info>>

\* C14: the outcome of playback has no influence: whatever the playback attempts
\* of a step do (the player starts, or Popen fails), the step leaves the same event
\* log and the same cooldown state and returns the same reward, done and info, or
\* raises the same exception, and it never raises because of playback.  Holding
\* of every step, it holds of every sequence of calls.
C14_PlaybackBlind ==
    [][(call'.op = "step" /\ call'.sim_error = "") =>
          /\ call'.raised # "OSError"
          /\ \A play \in PlayOutcomes :
                \A r \in {Replayed(play)} :
                   Observed(r) = <<audio_events', last_play_time', step_count',
                                   call'.raised, call'.reward, call'.done, call'.info>>]_vars

\* a step whose playback failed returns with the event in the log and the cooldown set
C14_Witness ==
    /\ Returned
    /\ call.play = "oserror"
    /\ Len(audio_events) > call.trace[1].n
    /\ \E k \in DOMAIN last_play_time : last_play_time[k] = call.now

(* ------------------------------- C15 ---------------------------------- *)

\* C15: when the simulator's step raises, step ends with that very exception and
\* the event log, the cooldown state, the step counter and the embeddings are what
\* they were before the call; when the simulator's reset raises, reset ends with
\* that very exception.
C15_SimulatorRaises ==
    [][call'.sim_error # "" =>
          /\ call'.raised = call'.sim_error
          /\ call'.op = "step" =>
                UNCHANGED <<audio_events, last_play_time, step_count, audio_obj_emb>>]_vars

\* the simulator's step raised in an episode that had emitted an event
C15_Witness ==
    /\ call.op = "step"
    /\ call.sim_error \in SimErrors
    /\ call.raised = call.sim_error
    /\ step_count = 1
    /\ Len(audio_events) = 1
    /\ DOMAIN last_play_time # {}
    /\ DOMAIN audio_obj_emb # {}

(* ------------------------------- C16 ---------------------------------- *)

\* the number of sounding objects the loop of reset meets before obj_id
Rank(obj_id) == Cardinality({k \in SoundKeys : k < obj_id})

C17_Claim == DOMAIN audio_obj_emb = SoundKeys

\* C17: in every reachable state only non-silent objects of the identity map have
\* an embedding; from construction to the first reset no object has one, and from
\* the first reset on every non-silent object of the identity map has one.
C17_EmbeddedOnceReset ==
    /\ DOMAIN audio_obj_emb \subseteq SoundKeys
    /\ resets = 0 => audio_obj_emb = EmptyDict
    /\ resets >= 1 => SoundKeys \subseteq DOMAIN audio_obj_emb

\* a step of an episode begun by reset, a silent object coming before a sounding
\* one in the identity map
C17_Witness ==
    /\ Stepped
    /\ resets >= 1
    /\ object_sound_map[1] = None
    /\ 2 \in SoundKeys
    /\ DOMAIN audio_obj_emb = {2}

\* the i-th contact of the last step appended an event of object hit
Emitted(i, hit) == \E k \in DOMAIN AppendedBy(i) : AppendedBy(i)[k].object_id = hit

(* ------------------------------- C18 ---------------------------------- *)

\* the clock of the last step did not read less than at an emission before it
TimeForward == \A k \in DOMAIN emit_time : call.now >= emit_time[k]

\* the objects a contact makes sound, were there no cooldown
Subjects(cp) == {hit \in {cp[1], cp[2]} : SoundingSubject(cp, hit)}

\* C18: with a cooldown of 0 the gate lets every contact through: as long as time
\* does not run backwards, every qualifying contact of a non-silent tracked object
\* appends its event, be it the second contact of that object in one step: one
\* event for each contact pair and each of its bodies that is such an object.
C18_NoCooldown ==
    (Stepped /\ cooldown = 0 /\ TimeForward) =>
        \A i \in DOMAIN call.cps :
            /\ \A hit \in Subjects(call.cps[i]) : Emitted(i, hit)
            /\ Len(AppendedBy(i)) = Cardinality(Subjects(call.cps[i]))

\* with no cooldown, an object that emitted in a step before emits at both
\* contacts of one step
C18_Witness ==
    /\ Stepped
    /\ cooldown = 0
    /\ TimeForward
    /\ Len(call.cps) = 2
    /\ \E hit \in DOMAIN call.trace[1].last :
          /\ Emitted(1, hit) /\ Emitted(2, hit)
          /\ call.trace[1].last[hit] = call.now

(* ------------------------------- C19 ---------------------------------- *)

\* the entry of body b in a cooldown state, <<>> for none
Entry(times, b) == IF b \in DOMAIN times THEN <<times[b]>> ELSE <<>>

Strangers(cp) ==
    cp[1] \notin DOMAIN object_sound_map /\ cp[2] \notin DOMAIN object_sound_map

\* C20: the lookups of step are total: whatever the bodies of the contact pairs,
\* be they in neither the identity map nor the ignore set nor the tool set, step
\* raises no KeyError; and a pair neither body of which is a key of the identity
\* map appends no event, raises no violation and changes no cooldown entry.
C20_TotalLookups ==
    Stepped =>
        /\ call.raised # "KeyError"
        /\ \A i \in DOMAIN call.cps :
              Strangers(call.cps[i]) => call.trace[i + 1] = call.trace[i]

\* a step returns after a tool contact of a body that is in no registry, the pair
\* not being ignored, and a contact of that body with a tracked object
C20_Witness ==
    /\ Returned
    /\ ignore_bodies = {}
    /\ 2 \notin DOMAIN object_sound_map \cup tool_bodies
    /\ call.cps = <<<<ROBOT, 2>>, <<2, 1>>>>
    /\ call.trace[2] = call.trace[1]

(* ------------------------------- C21 ---------------------------------- *)

\* the events of object b in the log
EventsOf(b) == {k \in DOMAIN audio_events : audio_events[k].object_id = b}

\* the time of the latest event of object b
LastEmission(b) == emit_time[CHOOSE k \in EventsOf(b) : \A j \in EventsOf(b) : j <= k]

\* C21: the cooldown state of an object is written only when an event of it is
\* emitted: it holds, for the objects that have an event in the log and for no
\* others, the time of the latest one, and a contact that emits no event of an
\* object leaves its entry alone.  So the window does not slide: a qualifying
\* contact of a non-silent object at a time at least cooldown after the object's
\* last emission emits again.
C21_WindowFixed ==
    /\ DOMAIN last_play_time = {b \in Bodies : EventsOf(b) # {}}
    /\ \A b \in DOMAIN last_play_time : last_play_time[b] = LastEmission(b)
    /\ Stepped =>
          \A i \in DOMAIN call.cps :
              /\ \A b \in Bodies :
                    ~Emitted(i, b) => Entry(call.trace[i + 1].last, b)
                                         = Entry(call.trace[i].last, b)
              /\ \A hit \in Subjects(call.cps[i]) :
                    (/\ hit \in DOMAIN call.trace[i].last
                     /\ call.now - call.trace[i].last[hit] >= cooldown)
                    => Emitted(i, hit)

\* three steps: an object emits in the first, not in the second, and again in the
\* third, cooldown after its first emission
C21_Witness ==
    /\ Stepped
    /\ call.nth = 3
    /\ Len(audio_events) = 2
    /\ audio_events[1].step = 1 /\ audio_events[2].step = 3
    /\ audio_events[1].object_id = audio_events[2].object_id
    /\ emit_time[2] - emit_time[1] = cooldown
    /\ cooldown = LongCooldown

(* ------------------------------- C22 ---------------------------------- *)

\* what holds of the fields of an event e whatever its step
WellFormed(e) ==
    /\ e.object_id \in DOMAIN object_sound_map
    /\ object_sound_map[e.object_id] # None
    /\ e.sound = object_sound_map[e.object_id]
    /\ e.object_id \notin ignore_bodies
    /\ e.other_body \notin ignore_bodies
    /\ e.tool_touch <=> e.other_body \in tool_bodies

\* the log is ordered by non-decreasing step
Ordered ==
    \A i \in DOMAIN audio_events, j \in DOMAIN audio_events :
        i <= j => audio_events[i].step <= audio_events[j].step

\* the events the last step appended
Fresh == {audio_events[k] : k \in (call.trace[1].n + 1) .. Len(audio_events)}

\* C22 as claimed: every event of the log is well formed, the log is ordered by
\* step, and the step of an event is the number of calls of step since the last
\* reset when it was emitted.
C22_Claim ==
    /\ \A k \in DOMAIN audio_events : WellFormed(audio_events[k]) /\ audio_events[k].step >= 1
    /\ Ordered
    /\ Stepped => \A e \in Fresh : e.step = call.nth

\* C22: every event of the log names as object_id a key of the identity map whose
\* label is not silent and is the event's sound; neither object_id nor other_body
\* is in the ignore set; tool_touch tells that other_body is in the tool set; the
\* log is ordered by step; and the step of an event is, counted when it was
\* emitted, the number of calls of step since the last reset in which the
\* simulator's step returned: at least 1, and no more than the number of calls.
C22_EventFields ==
    /\ \A k \in DOMAIN audio_events :
          /\ WellFormed(audio_events[k])
          /\ audio_events[k].step >= 1
          /\ audio_events[k].step <= step_count
    /\ Ordered
    /\ step_count <= call.nth
    /\ Stepped => \A e \in Fresh : e.step = step_count

\* the second call of step emits after a first call in which the simulator raised
C22_Witness ==
    /\ Stepped
    /\ call.nth = 2
    /\ step_count = 1
    /\ \E e \in Fresh : e.step = 1

(* ------------------------------- C23 ---------------------------------- *)

\* C23 as claimed: a contact pair (a, b), not ignored, of two non-silent tracked
\* objects neither of which emitted within cooldown before, appends two events,
\* the first of a touched by b and the second of b touched by a; when only one
\* body of a pair is tracked, the events of the pair are events of that body.
C23_Claim ==
    Stepped =>
        \A i \in DOMAIN call.cps :
            LET a == call.cps[i][1]
                b == call.cps[i][2]
            IN /\ (/\ SoundingSubject(call.cps[i], a)
                   /\ SoundingSubject(call.cps[i], b)
                   /\ ~WithinCooldown(call.trace[i].last, a, call.now)
                   /\ ~WithinCooldown(call.trace[i].last, b, call.now))
                  => /\ Len(AppendedBy(i)) = 2
                     /\ AppendedBy(i)[1].object_id = a /\ AppendedBy(i)[1].other_body = b
                     /\ AppendedBy(i)[2].object_id = b /\ AppendedBy(i)[2].other_body = a
               /\ \A x \in {a, b} :
                     (x \in DOMAIN object_sound_map
                         /\ \A y \in {a, b} \ {x} : y \notin DOMAIN object_sound_map)
                     => \A k \in DOMAIN AppendedBy(i) : AppendedBy(i)[k].object_id = x

(* ------------------------------- C24 ---------------------------------- *)

\* C24: step changes neither the identity map nor the embedding map: the
\* identity map is never changed, by reset no more than by step, the embedding
\* map is changed by reset only, and the info of every step that returns carries
\* the identity map as it was given to the constructor and the embeddings the
\* episode began with.
C24_MapsFixed ==
    [][/\ object_sound_map' = object_sound_map
       /\ audio_obj_emb' # audio_obj_emb => call'.op = "reset"
       /\ (call'.op = "step" /\ call'.sim_error = "" /\ call'.raised = "") =>
             /\ call'.info["audio_identity"] = object_sound_map
             /\ call'.info["audio_obj_emb"] = EmbLists(audio_obj_emb)]_vars

\* the second step of an episode begun by reset returns, the identity map having
\* a silent and a sounding object
C24_Witness ==
    /\ Returned
    /\ resets >= 1
    /\ call.nth = 2 /\ step_count = 2
    /\ \E k \in DOMAIN object_sound_map : object_sound_map[k] = None
    /\ DOMAIN call.info["audio_obj_emb"] # {}
    /\ call.info["audio_identity"] = object_sound_map

(* ------------------------------- C26 ---------------------------------- *)

\* C26 as claimed: when the simulator's step returns None for info, step does not
\* raise and returns an info with the four audio keys, and with terminated_reason
\* as well when the silent-object rule ends the episode in that step.
C26_Claim ==
    (Stepped /\ call.sim_info.none) =>
        /\ call.raised = ""
        /\ AudioKeys \subseteq DOMAIN call.info
        /\ ShouldTerminate(call.trace[Len(call.trace)].viol, call.sim_done)
              => "terminated_reason" \in DOMAIN call.info

(* ------------------------------- C27 ---------------------------------- *)

\* C27: reset clears the event log, the cooldown state and the step counter and
\* draws the embeddings before it calls the simulator's reset: after a call of
\* reset, and just as well after one in which the simulator's reset raised, the
\* log and the cooldown state are empty, the step counter is 0 and the generator
\* is one embedding further for each non-silent object.
C27_ClearsFirst ==
    [][call'.op = "reset" =>
          /\ audio_events' = <<>>
          /\ last_play_time' = EmptyDict
          /\ step_count' = 0
          /\ rng_pos' = rng_pos + Cardinality(SoundKeys) * emb_dim
          /\ DOMAIN audio_obj_emb' = SoundKeys]_vars

\* the simulator's reset raised at the second reset, the episode before having
\* left a cooldown state
C27_Witness ==
    /\ call.op = "reset"
    /\ call.sim_error \in SimErrors
    /\ call.raised = call.sim_error
    /\ resets = 2
    /\ DOMAIN before_reset # {}
    /\ audio_events = <<>> /\ last_play_time = EmptyDict /\ step_count = 0
    /\ rng_pos = 2 * Cardinality(SoundKeys) * emb_dim

(* ------------------------------- C25 ---------------------------------- *)

\* a body of cp is both a tool body and an ignored body
ToolIgnored(cp) == {cp[1], cp[2]} \cap tool_bodies \cap ignore_bodies # {}

Turns(e) == IF Limit(e) < 0 THEN 0 ELSE Limit(e)

HitOf(cp) ==
    IF cp[1] \in DOMAIN aw.sound_by_id THEN {cp[1]}
    ELSE {cp[2]} \cap DOMAIN aw.sound_by_id

\* C29 as claimed: when a contact of the step is a contact of one of the
\* stationary bodies chosen at reset and cooldown_sec has gone by since that body's
\* last play, step writes `now` as the body's last play time and plays its wav; and
\* step returns the simulator's tuple as it is and swallows whatever the audio
\* logic raises.
C29_Claim ==
    aw.op = "step" =>
        /\ \A i \in DOMAIN aw.contacts :
              \A hit \in HitOf(aw.contacts[i]) :
                 aw.now - aw.before[hit] >= cooldown_sec
                 => /\ aw.last_play[hit] = aw.now
                    /\ \E k \in DOMAIN aw.played : aw.played[k] = aw.sound_by_id[hit]
        /\ aw.ret = aw.out

=============================================================================
